---- MODULE Spec2Model ----
(***************************************************************************)
(* Model of the uniswap_lib command wrappers: the amount converter and     *)
(* token constructor of utils.rs, the fee enumeration of unswapv3_pool.rs, *)
(* the quoter / router / factory commands and the swap orchestrator of     *)
(* client.rs.                                                              *)
(*                                                                         *)
(* Wide integers (u128, U256) and f64 mantissas do not fit TLC's integers. *)
(* They are kept at full width as little-endian sequences of 12-bit limbs  *)
(* without a leading zero limb (<<>> is 0, <<0, 1>> is 4096).              *)
(***************************************************************************)
EXTENDS Integers, Sequences, FiniteSets, TLC

VARIABLES pc, op, arg, ret, calls, queried

vars == <<pc, op, arg, ret, calls, queried>>

(***************************************************************************)
(* Bounds of the model.                                                    *)
(***************************************************************************)
MaxDecimals == 18

(***************************************************************************)
(* Widths fixed by the types the code uses.                                *)
(***************************************************************************)
F64MantBits == 53
F64MaxExp == 1024
U128Bits == 128
U256Bits == 256
Uint160Bits == 160
Uint24Bits == 24
MaxUnitDecimals == 77

(***************************************************************************)
(* Unbounded naturals as limb sequences.                                   *)
(***************************************************************************)
LimbBits == 12
LimbBase == 4096

Max(x, y) == IF x >= y THEN x ELSE y

Limb(b, i) == IF i >= 1 /\ i <= Len(b) THEN b[i] ELSE 0

Norm(b) ==
    LET nz == {i \in 1..Len(b) : b[i] # 0}
    IN  IF nz = {} THEN <<>>
        ELSE SubSeq(b, 1, CHOOSE m \in nz : \A j \in nz : j <= m)

FromInt(n) ==
    Norm(<<n % LimbBase, (n \div LimbBase) % LimbBase,
           n \div (LimbBase * LimbBase)>>)

\* Carry propagation over column sums: cols[i] is the weight of LimbBase^(i-1).
RECURSIVE Propagate(_, _, _)
Propagate(cols, i, carry) ==
    IF carry = 0 /\ i > Len(cols) THEN <<>>
    ELSE LET s == Limb(cols, i) + carry
         IN  <<s % LimbBase>> \o Propagate(cols, i + 1, s \div LimbBase)

BigAdd(a, b) ==
    Norm(Propagate([i \in 1..Max(Len(a), Len(b)) |-> Limb(a, i) + Limb(b, i)],
                   1, 0))

\* a - b for a >= b (complement over Len(a) limbs).
BigSub(a, b) ==
    IF a = <<>> THEN <<>>
    ELSE Norm(SubSeq(
            Propagate([i \in 1..Len(a) |-> a[i] + (LimbBase - 1) - Limb(b, i)],
                      1, 1),
            1, Len(a)))

MulSmall(b, k) ==
    IF b = <<>> \/ k = 0 THEN <<>>
    ELSE Norm(Propagate([i \in 1..Len(b) |-> b[i] * k], 1, 0))

RECURSIVE ColSum(_, _, _, _)
ColSum(a, b, k, i) ==
    IF i = 0 THEN 0 ELSE a[i] * Limb(b, k + 1 - i) + ColSum(a, b, k, i - 1)

\* The shorter factor indexes the column sums, so a sum has few terms.
BigMul(a, b) ==
    IF a = <<>> \/ b = <<>> THEN <<>>
    ELSE LET x == IF Len(a) <= Len(b) THEN a ELSE b
             y == IF Len(a) <= Len(b) THEN b ELSE a
         IN  Norm(Propagate(
                [k \in 1..(Len(a) + Len(b)) |-> ColSum(x, y, k, Len(x))], 1, 0))

\* -1, 0, 1 as a < b, a = b, a > b.
BigCmp(a, b) ==
    IF Len(a) # Len(b) THEN (IF Len(a) > Len(b) THEN 1 ELSE -1)
    ELSE LET df == {i \in 1..Len(a) : a[i] # b[i]}
         IN  IF df = {} THEN 0
             ELSE LET t == CHOOSE m \in df : \A j \in df : j <= m
                  IN  IF a[t] > b[t] THEN 1 ELSE -1

BigLe(a, b) == BigCmp(a, b) <= 0
BigLt(a, b) == BigCmp(a, b) < 0

BitLenSmall(x) == Cardinality({k \in 0..(LimbBits - 1) : 2^k <= x})

BitLen(b) ==
    IF b = <<>> THEN 0
    ELSE LimbBits * (Len(b) - 1) + BitLenSmall(b[Len(b)])

Shl(b, k) ==
    IF b = <<>> THEN <<>>
    ELSE [i \in 1..(k \div LimbBits) |-> 0] \o MulSmall(b, 2^(k % LimbBits))

Shr(b, k) ==
    LET q == k \div LimbBits
        r == k % LimbBits
    IN  IF q >= Len(b) THEN <<>>
        ELSE Norm([i \in 1..(Len(b) - q) |->
                (b[i + q] \div 2^r)
                + (Limb(b, i + q + 1) % 2^r) * 2^(LimbBits - r)])

\* b mod 2^k
LowBits(b, k) ==
    LET q == k \div LimbBits
        r == k % LimbBits
    IN  IF q >= Len(b) THEN b
        ELSE Norm([i \in 1..(q + 1) |-> IF i <= q THEN b[i] ELSE b[i] % 2^r])

Pow2(k) == Shl(<<1>>, k)

Ones(k) == BigSub(Pow2(k), <<1>>)

IsOdd(b) == b # <<>> /\ b[1] % 2 = 1

\* Largest digit q with q * d <= r, found one bit at a time.
RECURSIVE QuoDigit(_, _, _, _)
QuoDigit(r, d, j, q) ==
    IF j < 0 THEN q
    ELSE IF BigLe(MulSmall(d, q + 2^j), r)
         THEN QuoDigit(r, d, j - 1, q + 2^j)
         ELSE QuoDigit(r, d, j - 1, q)

\* Long division, one limb of n at a time from the top: <<quotient, remainder>>.
RECURSIVE DivFrom(_, _, _, _)
DivFrom(n, d, i, r) ==
    IF i = 0 THEN <<<<>>, r>>
    ELSE LET rr == IF r = <<>> /\ n[i] = 0 THEN <<>> ELSE <<n[i]>> \o r
             qd == QuoDigit(rr, d, LimbBits - 1, 0)
             rest == DivFrom(n, d, i - 1, BigSub(rr, MulSmall(d, qd)))
         IN  <<Append(rest[1], qd), rest[2]>>

BigDivMod(n, d) ==
    LET qr == DivFrom(n, d, Len(n), <<>>) IN <<Norm(qr[1]), qr[2]>>

\* 10^d by squaring, so the recursion stays shallow.
RECURSIVE Pow10(_)
Pow10(d) ==
    IF d = 0 THEN <<1>>
    ELSE LET h == Pow10(d \div 2)
             sq == BigMul(h, h)
         IN  IF d % 2 = 1 THEN MulSmall(sq, 10) ELSE sq

(***************************************************************************)
(* f64: [cls, m, e].  A finite non-zero value is m * 2^e with m of exactly *)
(* 53 bits, as IEEE 754 stores a normal number; zero is m = <<>>, e = 0.   *)
(* Only non-negative values are modelled: every amount the callers and the *)
(* tests convert is non-negative, and subnormals are never produced by a   *)
(* product with 10^d >= 1 of the inputs drawn here.                        *)
(***************************************************************************)
F64Zero == [cls |-> "finite", m |-> <<>>, e |-> 0]
F64Inf == [cls |-> "inf", m |-> <<>>, e |-> 0]
F64NaN == [cls |-> "nan", m |-> <<>>, e |-> 0]

\* Round-to-nearest, ties-to-even, of (M + fraction) * 2^E to 53 bits; sticky
\* says that a non-zero fraction below M's last bit was dropped already.
RoundToF64(M, E, sticky) ==
    LET n == BitLen(M)
        s == n - F64MantBits
    IN  IF M = <<>> THEN F64Zero
        ELSE IF s <= 0
        THEN [cls |-> "finite", m |-> Shl(M, -s), e |-> E + s]
        ELSE LET q == Shr(M, s)
                 rem == LowBits(M, s)
                 c == BigCmp(rem, Pow2(s - 1))
                 up == c > 0 \/ (c = 0 /\ (sticky \/ IsOdd(q)))
                 q1 == IF up THEN BigAdd(q, <<1>>) ELSE q
                 wrap == BitLen(q1) > F64MantBits
                 m2 == IF wrap THEN Shr(q1, 1) ELSE q1
                 e2 == IF wrap THEN E + s + 1 ELSE E + s
             IN  IF e2 + F64MantBits > F64MaxExp THEN F64Inf
                 ELSE [cls |-> "finite", m |-> m2, e |-> e2]

\* The f64 of an integer that fits 53 bits, and of a power of two.
F64FromNat(n) == RoundToF64(n, 0, FALSE)
F64Pow2(k) == RoundToF64(<<1>>, k, FALSE)

\* The f64 nearest to n / d (d > 0): what a decimal literal or str::parse
\* yields for the decimal n / d.
F64FromRatio(n, d) ==
    IF n = <<>> THEN F64Zero
    ELSE LET k == Max(0, F64MantBits + 2 + BitLen(d) - BitLen(n))
             qr == BigDivMod(Shl(n, k), d)
         IN  RoundToF64(qr[1], -k, qr[2] # <<>>)

F64IsZero(x) == x.cls = "finite" /\ x.m = <<>>

F64Mul(x, y) ==
    IF x.cls = "nan" \/ y.cls = "nan" THEN F64NaN
    ELSE IF x.cls = "inf" \/ y.cls = "inf"
    THEN (IF F64IsZero(x) \/ F64IsZero(y) THEN F64NaN ELSE F64Inf)
    ELSE RoundToF64(BigMul(x.m, y.m), x.e + y.e, FALSE)

\* -1, 0, 1 for finite x, y.
F64Cmp(x, y) ==
    IF x.m = <<>> \/ y.m = <<>>
    THEN (IF x.m = y.m THEN 0 ELSE IF x.m = <<>> THEN -1 ELSE 1)
    ELSE IF x.e # y.e THEN (IF x.e > y.e THEN 1 ELSE -1)
    ELSE BigCmp(x.m, y.m)

F64IsWhole(x) ==
    x.cls = "finite" /\ (x.e >= 0 \/ LowBits(x.m, -x.e) = <<>>)

\* f64::powi, as compiler-builtins computes llvm.powi for n >= 0: square and
\* multiply, each product rounded.
RECURSIVE PowiLoop(_, _, _)
PowiLoop(a, b, r) ==
    LET r2 == IF b % 2 = 1 THEN F64Mul(r, a) ELSE r
    IN  IF b \div 2 = 0 THEN r2
        ELSE PowiLoop(F64Mul(a, a), b \div 2, r2)

powi(x, n) == PowiLoop(x, n, F64FromNat(<<1>>))

U128Max == Ones(U128Bits)

\* A cast that wraps modulo 2^128 instead of saturating.
F64AsU128_wrapping(x) ==
    IF x.cls # "finite" \/ x.m = <<>> THEN <<>>
    ELSE IF x.e >= 0 THEN LowBits(Shl(x.m, x.e), U128Bits)
    ELSE Shr(x.m, -x.e)

\* A cast through the narrower u64 (`as u64`), saturating at 2^64 - 1.
F64AsU128_via_u64(x) ==
    IF x.cls = "nan" THEN <<>>
    ELSE IF x.cls = "inf" THEN Ones(U128Bits \div 2)
    ELSE IF x.m = <<>> THEN <<>>
    ELSE IF x.e + F64MantBits > U128Bits \div 2 THEN Ones(U128Bits \div 2)
    ELSE IF x.e >= 0 THEN Shl(x.m, x.e)
    ELSE Shr(x.m, -x.e)

\* `f as u128`: truncates toward zero, saturates, NaN to 0.
F64AsU128(x) ==
    IF x.cls = "nan" THEN <<>>
    ELSE IF x.cls = "inf" THEN U128Max
    ELSE IF x.m = <<>> THEN <<>>
    ELSE IF x.e + F64MantBits > U128Bits THEN U128Max
    ELSE IF x.e >= 0 THEN Shl(x.m, x.e)
    ELSE Shr(x.m, -x.e)

\* U256::from(u128): widening, never fails.
U256FromU128(v) == v

from_readable_amount(amount_in, decimals) ==
    U256FromU128(F64AsU128(F64Mul(amount_in, powi(F64FromNat(FromInt(10)), decimals))))

\* format_units(amount, decimals): Err for a unit above 77 decimals, else the
\* decimal string "<integer>.<fraction>" of amount / 10^decimals, kept here as
\* its integer part, its fraction digits (as a number) and their count.
format_units(amount, decimals) ==
    IF decimals > MaxUnitDecimals THEN [ok |-> FALSE]
    ELSE LET qr == BigDivMod(amount, Pow10(decimals))
         IN  [ok |-> TRUE, int |-> qr[1], frac |-> qr[2], digits |-> decimals]

\* str::parse::<f64> of such a string: the nearest f64 (always Ok on it).
parse_f64(str) ==
    F64FromRatio(BigAdd(BigMul(str.int, Pow10(str.digits)), str.frac),
                 Pow10(str.digits))

to_readable_amount(amount_in, decimals) ==
    LET num == format_units(amount_in, decimals)
    IN  IF ~num.ok THEN [kind |-> "Panic"]
        ELSE [kind |-> "Ok", val |-> parse_f64(num)]

(***************************************************************************)
(* Pool fee enumeration.                                                   *)
(***************************************************************************)
UniswapPoolFee == {"Fee10000", "Fee3000", "Fee500", "Fee100"}

\* A tier copied from its neighbour without changing the value.
as_u32_dup(fee) ==
    CASE fee = "Fee10000" -> 10000
      [] fee = "Fee3000" -> 3000
      [] fee = "Fee500" -> 3000
      [] fee = "Fee100" -> 100

as_u32(fee) ==
    CASE fee = "Fee10000" -> 10000
      [] fee = "Fee3000" -> 3000
      [] fee = "Fee500" -> 500
      [] fee = "Fee100" -> 100

(***************************************************************************)
(* Addresses.  A string is a sequence of characters; Address::from_str     *)
(* takes an optional "0x" and then exactly 40 hex digits, and decodes them *)
(* to 20 bytes.                                                            *)
(***************************************************************************)
AddressBytes == 20

HexDigits ==
    <<"0", "1", "2", "3", "4", "5", "6", "7", "8", "9",
      "a", "b", "c", "d", "e", "f">>
HexUpper == <<"A", "B", "C", "D", "E", "F">>

IsHex(c) ==
    (\E i \in 1..Len(HexDigits) : HexDigits[i] = c)
    \/ (\E i \in 1..Len(HexUpper) : HexUpper[i] = c)

HexVal(c) ==
    IF \E i \in 1..Len(HexUpper) : HexUpper[i] = c
    THEN 9 + (CHOOSE i \in 1..Len(HexUpper) : HexUpper[i] = c)
    ELSE (CHOOSE i \in 1..Len(HexDigits) : HexDigits[i] = c) - 1

Address_from_str(str) ==
    LET hex == IF Len(str) >= 2 /\ str[1] = "0" /\ str[2] = "x"
               THEN SubSeq(str, 3, Len(str)) ELSE str
    IN  IF Len(hex) = 2 * AddressBytes /\ \A i \in 1..Len(hex) : IsHex(hex[i])
        THEN [ok |-> TRUE,
              addr |-> [i \in 1..AddressBytes |->
                          16 * HexVal(hex[2 * i - 1]) + HexVal(hex[2 * i])]]
        ELSE [ok |-> FALSE]

WethStr ==
    <<"0", "x", "C", "0", "2", "a", "a", "A", "3", "9", "b", "2",
       "2", "3", "F", "E", "8", "D", "0", "A", "0", "e", "5", "C",
       "4", "F", "2", "7", "e", "A", "D", "9", "0", "8", "3", "C",
       "7", "5", "6", "C", "c", "2">>
TurboStr ==
    <<"0", "x", "A", "3", "5", "9", "2", "3", "1", "6", "2", "C",
       "4", "9", "c", "F", "9", "5", "e", "6", "B", "F", "2", "6",
       "6", "2", "3", "3", "8", "5", "e", "b", "4", "3", "1", "a",
       "d", "9", "2", "0", "D", "3">>
ReceiverStr ==
    <<"0", "x", "C", "a", "0", "1", "7", "e", "2", "4", "f", "4",
       "4", "9", "E", "c", "4", "5", "4", "E", "9", "4", "C", "8",
       "4", "3", "b", "b", "b", "F", "2", "c", "E", "6", "1", "b",
       "7", "F", "6", "B", "6", "9">>

WETH == Address_from_str(WethStr).addr
TURBO == Address_from_str(TurboStr).addr
RECEIVER == Address_from_str(ReceiverStr).addr

(***************************************************************************)
(* The provider.  A URL string either parses or not; a contract call made  *)
(* through a provider is answered by the network: resp is that answer.     *)
(***************************************************************************)
WellFormedUrls == {"https://eth.llamarpc.com", "https://mainnet.base.org"}
RpcUrls == {"https://eth.llamarpc.com", "eth.llamarpc.com"}

Provider_try_from(rpc_url) == rpc_url \in WellFormedUrls

Ok(tag, val) == [kind |-> "Ok", tag |-> tag, val |-> val]
Err(e) == [kind |-> "Err", err |-> e]
Panic == [kind |-> "Panic"]

ContractCall(contract, fn, args) ==
    [contract |-> contract, fn |-> fn, args |-> args]

(***************************************************************************)
(* Quoter command.                                                         *)
(***************************************************************************)
UNIV3_QUOTER_CONTRACT_ADDR ==
    <<"0", "x", "b", "2", "7", "3", "0", "8", "f", "9", "F", "9",
       "0", "D", "6", "0", "7", "4", "6", "3", "b", "b", "3", "3",
       "e", "A", "1", "B", "e", "B", "b", "4", "1", "C", "2", "7",
       "C", "E", "5", "A", "B", "6">>

\* A failed call swallowed into a zero quote.
quoter_execute_silent_zero(command, rpc_url, resp) ==
    IF ~Provider_try_from(rpc_url)
    THEN [ret |-> Err("InvalidRpcUrl"), calls |-> <<>>]
    ELSE [ret |-> Ok(command.tag, IF resp.ok THEN resp.val ELSE <<>>),
          calls |-> <<ContractCall("UNIV3_QUOTER", command.tag, <<>>)>>]

\* The match without its second arm: QuoteExactOutputSingle falls through to
\* the catch-all.
quoter_execute_missing_arm(command, rpc_url, resp) ==
    IF ~Provider_try_from(rpc_url)
    THEN [ret |-> Err("InvalidRpcUrl"), calls |-> <<>>]
    ELSE IF command.tag = "QuoteExactInputSingle"
    THEN LET params == command.params
             call == ContractCall("UNIV3_QUOTER", "quote_exact_input_single",
                        <<params.token_in, params.token_out,
                          as_u32(params.fee), params.amount_in,
                          params.sqrt_price_limit_x96>>)
         IN  IF ~resp.ok
             THEN [ret |-> Err("WrongPoolFee"), calls |-> <<call>>]
             ELSE [ret |-> Ok("QuoteExactInputSingle", resp.val),
                   calls |-> <<call>>]
    ELSE [ret |-> Err("InvalidCommand"), calls |-> <<>>]

quoter_execute(command, rpc_url, resp) ==
    IF ~Provider_try_from(rpc_url)
    THEN [ret |-> Err("InvalidRpcUrl"), calls |-> <<>>]
    ELSE IF ~Address_from_str(UNIV3_QUOTER_CONTRACT_ADDR).ok
    THEN [ret |-> Err("InvalidAddress"), calls |-> <<>>]
    ELSE LET params == command.params
         IN  CASE command.tag = "QuoteExactInputSingle" ->
                 LET call == ContractCall("UNIV3_QUOTER", "quote_exact_input_single",
                                <<params.token_in, params.token_out,
                                  as_u32(params.fee), params.amount_in,
                                  params.sqrt_price_limit_x96>>)
                 IN  IF ~resp.ok
                     THEN [ret |-> Err("WrongPoolFee"), calls |-> <<call>>]
                     ELSE [ret |-> Ok("QuoteExactInputSingle", resp.val),
                           calls |-> <<call>>]
               [] command.tag = "QuoteExactOutputSingle" ->
                 LET call == ContractCall("UNIV3_QUOTER", "quote_exact_output_single",
                                <<params.token_in, params.token_out,
                                  as_u32(params.fee), params.amount_out,
                                  params.sqrt_price_limit_x96>>)
                 IN  IF ~resp.ok
                     THEN [ret |-> Err("WrongPoolFee"), calls |-> <<call>>]
                     ELSE [ret |-> Ok("QuoteExactOutputSingle", resp.val),
                           calls |-> <<call>>]
               [] OTHER -> [ret |-> Err("InvalidCommand"), calls |-> <<>>]

(***************************************************************************)
(* Router command.                                                         *)
(***************************************************************************)
UNIV3_ROUTER_CONTRACT_ADDR ==
    <<"0", "x", "E", "5", "9", "2", "4", "2", "7", "A", "0", "A",
       "E", "c", "e", "9", "2", "D", "e", "3", "E", "d", "e", "e",
       "1", "F", "1", "8", "E", "0", "1", "5", "7", "C", "0", "5",
       "8", "6", "1", "5", "6", "4">>

\* TryFrom<ExactInputSingleParams> for the binding's struct: every field is
\* copied, the fee through as_u32, and the result is always Ok.
try_from_ExactInputSingleParams(value) ==
    Ok("ExactInputSingleParams",
       [token_in |-> value.token_in,
        token_out |-> value.token_out,
        fee |-> as_u32(value.fee),
        recipient |-> value.recipient,
        amount_in |-> value.amount_in,
        amount_out_minimum |-> value.amount_out_minimum,
        sqrt_price_limit_x96 |-> value.sqrt_price_limit_x96])

try_from_ExactOutputSingleParams(value) ==
    Ok("ExactOutputSingleParams",
       [token_in |-> value.token_in,
        token_out |-> value.token_out,
        fee |-> as_u32(value.fee),
        recipient |-> value.recipient,
        amount_out |-> value.amount_out,
        amount_in_maximum |-> value.amount_in_maximum,
        sqrt_price_limit_x96 |-> value.sqrt_price_limit_x96])

router_execute(command, rpc_url, resp) ==
    IF ~Provider_try_from(rpc_url)
    THEN [ret |-> Err("InvalidRpcUrl"), calls |-> <<>>]
    ELSE IF ~Address_from_str(UNIV3_ROUTER_CONTRACT_ADDR).ok
    THEN [ret |-> Err("InvalidAddress"), calls |-> <<>>]
    ELSE CASE command.tag = "ExactInputSingle" ->
             LET conv == try_from_ExactInputSingleParams(command.params)
                 call == ContractCall("UNIV3_ROUTER", "exact_input_single",
                                      <<conv.val>>)
             IN  IF conv.kind # "Ok" THEN [ret |-> Panic, calls |-> <<>>]
                 ELSE IF ~resp.ok
                 THEN [ret |-> Err("WrongPoolFee"), calls |-> <<call>>]
                 ELSE [ret |-> Ok("ExactInputSingle", resp.val),
                       calls |-> <<call>>]
           [] command.tag = "ExactOutputSingle" ->
             LET conv == try_from_ExactOutputSingleParams(command.params)
                 call == ContractCall("UNIV3_ROUTER", "exact_output_single",
                                      <<conv.val>>)
             IN  IF conv.kind # "Ok" THEN [ret |-> Panic, calls |-> <<>>]
                 ELSE IF ~resp.ok
                 THEN [ret |-> Err("WrongPoolFee"), calls |-> <<call>>]
                 ELSE [ret |-> Ok("ExactOutputSingle", resp.val),
                       calls |-> <<call>>]

(***************************************************************************)
(* Factory command.                                                        *)
(***************************************************************************)
UNIV3_FACTORY_CONTRACT_ADDR ==
    <<"0", "x", "1", "F", "9", "8", "4", "3", "1", "c", "8", "a",
       "D", "9", "8", "5", "2", "3", "6", "3", "1", "A", "E", "4",
       "a", "5", "9", "f", "2", "6", "7", "3", "4", "6", "e", "a",
       "3", "1", "F", "9", "8", "4">>

\* An answer remembered for inputs that were queried before: no call is made.
factory_execute_cached(command, rpc_url, resp) ==
    LET call == ContractCall("UNIV3_FACTORY", "get_pool",
                   <<command.params.token_a, command.params.token_b,
                     command.params.fee>>)
        key == [op |-> "factory_execute",
                inputs |-> [command |-> command, rpc_url |-> rpc_url]]
    IN  IF ~Provider_try_from(rpc_url)
        THEN [ret |-> Err("InvalidRpcUrl"), calls |-> <<>>]
        ELSE IF key \in queried
        THEN [ret |-> Ok("GetPool", WETH), calls |-> <<>>]
        ELSE IF ~resp.ok
        THEN [ret |-> Err("ContractError"), calls |-> <<call>>]
        ELSE [ret |-> Ok("GetPool", resp.val), calls |-> <<call>>]

factory_execute(command, rpc_url, resp) ==
    IF ~Provider_try_from(rpc_url)
    THEN [ret |-> Err("InvalidRpcUrl"), calls |-> <<>>]
    ELSE IF ~Address_from_str(UNIV3_FACTORY_CONTRACT_ADDR).ok
    THEN [ret |-> Panic, calls |-> <<>>]
    ELSE CASE command.tag = "GetPool" ->
             LET params == command.params
                 call == ContractCall("UNIV3_FACTORY", "get_pool",
                            <<params.token_a, params.token_b, params.fee>>)
             IN  IF ~resp.ok
                 THEN [ret |-> Err("ContractError"), calls |-> <<call>>]
                 ELSE [ret |-> Ok("GetPool", resp.val), calls |-> <<call>>]
           [] OTHER -> [ret |-> Err("invalid command"), calls |-> <<>>]

(***************************************************************************)
(* Swap orchestrator.                                                      *)
(***************************************************************************)
UniswapSupportChain == {"Ethereum", "Base"}
SwapDirection == {"ExactInput", "ExactOutput"}
UniswapVersion == {"V2", "V3"}

as_chain_id(chain) == IF chain = "Ethereum" THEN 1 ELSE 8453

\* The two amounts of the caller handed over in each other's place.
swap_crossed_amounts(chain, direction, uniswap_version, params, rpc_url, resp) ==
    IF uniswap_version = "V2" \/ direction # "ExactInput"
    THEN [ret |-> Ok("unit", <<>>), calls |-> <<>>]
    ELSE LET command ==
                 [tag |-> "ExactInputSingle",
                  params |-> [token_in |-> params.token_in,
                              token_out |-> params.token_out,
                              fee |-> params.pool_fee,
                              recipient |-> params.recipient,
                              deadline |-> params.deadline,
                              amount_in |-> params.amount_out_min,
                              amount_out_minimum |-> params.amount_in,
                              sqrt_price_limit_x96 |-> <<>>]]
             tx == router_execute(command, rpc_url, resp)
             invoked == ContractCall("uniswapv3_router", "execute",
                                     <<command, rpc_url>>)
         IN  IF tx.ret.kind # "Ok"
             THEN [ret |-> tx.ret, calls |-> <<invoked>> \o tx.calls]
             ELSE [ret |-> Ok("unit", <<>>), calls |-> <<invoked>> \o tx.calls]

swap(chain, direction, uniswap_version, params, rpc_url, resp) ==
    IF uniswap_version = "V2"
    THEN [ret |-> Ok("unit", <<>>), calls |-> <<>>]
    ELSE IF direction = "ExactInput"
    THEN LET command ==
                 [tag |-> "ExactInputSingle",
                  params |-> [token_in |-> params.token_in,
                              token_out |-> params.token_out,
                              fee |-> params.pool_fee,
                              recipient |-> params.recipient,
                              deadline |-> params.deadline,
                              amount_in |-> params.amount_in,
                              amount_out_minimum |-> params.amount_out_min,
                              sqrt_price_limit_x96 |-> <<>>]]
             tx == router_execute(command, rpc_url, resp)
             invoked == ContractCall("uniswapv3_router", "execute",
                                     <<command, rpc_url>>)
         IN  IF tx.ret.kind # "Ok"
             THEN [ret |-> tx.ret, calls |-> <<invoked>> \o tx.calls]
             ELSE [ret |-> Ok("unit", <<>>),
                   calls |-> (<<invoked>> \o tx.calls)
                             \o <<ContractCall("stdout", "println",
                                    <<tx.ret, as_chain_id(chain)>>)>>]
    ELSE [ret |-> Ok("unit", <<>>), calls |-> <<>>]

(***************************************************************************)
(* Token descriptor.                                                       *)
(***************************************************************************)
Token_new(address, decimals, token_name) ==
    LET parsed == Address_from_str(address)
    IN  IF ~parsed.ok THEN [ret |-> Panic, calls |-> <<>>]
        ELSE [ret |-> Ok("Token", [address |-> parsed.addr,
                                   decimals |-> decimals,
                                   token_name |-> token_name]),
              calls |-> <<>>]

\* connected: whether on_builtin reaches the endpoint; name_resp, decimals_resp:
\* the network's answers to the two ERC20 reads.
Token_new_from_online(address, rpc_url, connected, name_resp, decimals_resp) ==
    LET parsed == Address_from_str(address)
        name_call == ContractCall("ERC20", "name", <<parsed.addr>>)
        decimals_call == ContractCall("ERC20", "decimals", <<parsed.addr>>)
    IN  IF ~parsed.ok THEN [ret |-> Panic, calls |-> <<>>]
        ELSE IF ~(Provider_try_from(rpc_url) /\ connected)
        THEN [ret |-> Err("Provider"), calls |-> <<>>]
        ELSE IF ~name_resp.ok
        THEN [ret |-> Err("ContractCall"), calls |-> <<name_call>>]
        ELSE IF ~decimals_resp.ok
        THEN [ret |-> Err("ContractCall"), calls |-> <<name_call, decimals_call>>]
        ELSE [ret |-> Ok("Token", [address |-> parsed.addr,
                                   decimals |-> decimals_resp.val,
                                   token_name |-> name_resp.val]),
              calls |-> <<name_call, decimals_call>>]

(***************************************************************************)
(* Inputs the callers draw from.                                           *)
(***************************************************************************)
Strip0x(str) == SubSeq(str, 3, Len(str))

AddressStrings ==
    {WethStr, TurboStr, Strip0x(WethStr),
     SubSeq(WethStr, 1, Len(WethStr) - 1),
     <<"0", "x", "g">> \o SubSeq(WethStr, 4, Len(WethStr)),
     <<"w", "e", "t", "h">>, <<>>}

TokenNames == {"Wrapped Ether", "Turbo"}
TokenDecimals == {9, MaxDecimals}

Amounts256 == {<<>>, Pow10(MaxDecimals)}
SqrtPriceLimits == {<<>>, Ones(Uint160Bits), Pow2(Uint160Bits)}
Deadlines == {<<>>, FromInt(1700000000)}
TokenPairs == {<<WETH, TURBO>>, <<TURBO, WETH>>}

CallOutcomes(values) ==
    {[ok |-> FALSE, why |-> "revert"], [ok |-> FALSE, why |-> "transport"]}
    \cup {[ok |-> TRUE, val |-> v] : v \in values}

QuoterCommands ==
    {[tag |-> "QuoteExactInputSingle",
      params |-> [token_in |-> t[1], token_out |-> t[2], fee |-> f,
                  amount_in |-> a, sqrt_price_limit_x96 |-> q]] :
        t \in TokenPairs, f \in UniswapPoolFee, a \in Amounts256,
        q \in SqrtPriceLimits}
    \cup
    {[tag |-> "QuoteExactOutputSingle",
      params |-> [token_in |-> t[1], token_out |-> t[2], fee |-> f,
                  amount_out |-> a, sqrt_price_limit_x96 |-> q]] :
        t \in TokenPairs, f \in UniswapPoolFee, a \in Amounts256,
        q \in SqrtPriceLimits}

ExactInputSingleParams ==
    {[token_in |-> t[1], token_out |-> t[2], fee |-> f, recipient |-> RECEIVER,
      amount_in |-> a, amount_out_minimum |-> <<>>,
      sqrt_price_limit_x96 |-> q] :
        t \in TokenPairs, f \in UniswapPoolFee, a \in Amounts256,
        q \in SqrtPriceLimits}

ExactOutputSingleParams ==
    {[token_in |-> t[1], token_out |-> t[2], fee |-> f, recipient |-> RECEIVER,
      amount_out |-> a, amount_in_maximum |-> Pow10(MaxDecimals),
      sqrt_price_limit_x96 |-> q] :
        t \in TokenPairs, f \in UniswapPoolFee, a \in Amounts256,
        q \in SqrtPriceLimits}

RouterCommands ==
    {[tag |-> "ExactInputSingle", params |-> p] : p \in ExactInputSingleParams}
    \cup
    {[tag |-> "ExactOutputSingle", params |-> p] : p \in ExactOutputSingleParams}

FactoryCommands ==
    {[tag |-> "GetPool",
      params |-> [token_a |-> t[1], token_b |-> t[2], fee |-> as_u32(f)]] :
        t \in TokenPairs, f \in UniswapPoolFee}

SwapParams ==
    {[token_in |-> t[1], token_out |-> t[2], amount_in |-> a,
      amount_out_min |-> <<>>, pool_fee |-> f, recipient |-> RECEIVER,
      deadline |-> dl] :
        t \in TokenPairs, f \in UniswapPoolFee, a \in Amounts256,
        dl \in Deadlines}

(***************************************************************************)
(* The caller: one call at a time.  pc is "ready" before a call and "done" *)
(* once it returned; op, arg, ret and calls record the call, its inputs    *)
(* (with the network's answers), its outcome and the calls it issued.      *)
(* queried is the history of the inputs of earlier network commands; a     *)
(* caller that returns for good (Return) starts over without one.          *)
(***************************************************************************)
Init ==
    /\ pc = "ready"
    /\ op = "none"
    /\ arg = <<>>
    /\ ret = <<>>
    /\ calls = <<>>
    /\ queried = {}

AsU32 ==
    /\ pc = "ready"
    /\ \E fee \in UniswapPoolFee :
        /\ op' = "as_u32"
        /\ arg' = [fee |-> fee]
        /\ ret' = Ok("u32", as_u32(fee))
    /\ calls' = <<>>
    /\ pc' = "done"
    /\ UNCHANGED queried

TryFromExactInput ==
    /\ pc = "ready"
    /\ \E value \in ExactInputSingleParams :
        /\ op' = "try_from_ExactInputSingleParams"
        /\ arg' = [value |-> value]
        /\ ret' = try_from_ExactInputSingleParams(value)
    /\ calls' = <<>>
    /\ pc' = "done"
    /\ UNCHANGED queried

TryFromExactOutput ==
    /\ pc = "ready"
    /\ \E value \in ExactOutputSingleParams :
        /\ op' = "try_from_ExactOutputSingleParams"
        /\ arg' = [value |-> value]
        /\ ret' = try_from_ExactOutputSingleParams(value)
    /\ calls' = <<>>
    /\ pc' = "done"
    /\ UNCHANGED queried

QuoterExecute ==
    /\ pc = "ready"
    /\ \E command \in QuoterCommands, rpc_url \in RpcUrls,
          resp \in CallOutcomes(Amounts256) :
        LET r == quoter_execute(command, rpc_url, resp)
        IN  /\ op' = "quoter_execute"
            /\ arg' = [command |-> command, rpc_url |-> rpc_url, resp |-> resp]
            /\ ret' = r.ret
            /\ calls' = r.calls
    /\ pc' = "done"
    /\ UNCHANGED queried

RouterExecute ==
    /\ pc = "ready"
    /\ \E command \in RouterCommands, rpc_url \in RpcUrls,
          resp \in CallOutcomes(Amounts256) :
        LET r == router_execute(command, rpc_url, resp)
        IN  /\ op' = "router_execute"
            /\ arg' = [command |-> command, rpc_url |-> rpc_url, resp |-> resp]
            /\ ret' = r.ret
            /\ calls' = r.calls
    /\ pc' = "done"
    /\ UNCHANGED queried

FactoryExecute ==
    /\ pc = "ready"
    /\ \E command \in FactoryCommands, rpc_url \in RpcUrls,
          resp \in CallOutcomes({WETH, TURBO}) :
        LET r == factory_execute(command, rpc_url, resp)
        IN  /\ op' = "factory_execute"
            /\ arg' = [command |-> command, rpc_url |-> rpc_url, resp |-> resp]
            /\ ret' = r.ret
            /\ calls' = r.calls
    /\ pc' = "done"
    /\ UNCHANGED queried

Swap ==
    /\ pc = "ready"
    /\ \E chain \in UniswapSupportChain, direction \in SwapDirection,
          uniswap_version \in UniswapVersion, params \in SwapParams,
          rpc_url \in RpcUrls, resp \in CallOutcomes(Amounts256) :
        LET r == swap(chain, direction, uniswap_version, params, rpc_url, resp)
        IN  /\ op' = "swap"
            /\ arg' = [chain |-> chain, direction |-> direction,
                       uniswap_version |-> uniswap_version, params |-> params,
                       rpc_url |-> rpc_url, resp |-> resp]
            /\ ret' = r.ret
            /\ calls' = r.calls
    /\ pc' = "done"
    /\ UNCHANGED queried

TokenNew ==
    /\ pc = "ready"
    /\ \E address \in AddressStrings, decimals \in TokenDecimals,
          token_name \in TokenNames :
        LET r == Token_new(address, decimals, token_name)
        IN  /\ op' = "Token_new"
            /\ arg' = [address |-> address, decimals |-> decimals,
                       token_name |-> token_name]
            /\ ret' = r.ret
            /\ calls' = r.calls
    /\ pc' = "done"
    /\ UNCHANGED queried

TokenNewFromOnline ==
    /\ pc = "ready"
    /\ \E address \in AddressStrings, rpc_url \in RpcUrls,
          connected \in BOOLEAN, name_resp \in CallOutcomes(TokenNames),
          decimals_resp \in CallOutcomes(TokenDecimals) :
        LET r == Token_new_from_online(address, rpc_url, connected, name_resp,
                                       decimals_resp)
        IN  /\ op' = "Token_new_from_online"
            /\ arg' = [address |-> address, rpc_url |-> rpc_url,
                       connected |-> connected, name_resp |-> name_resp,
                       decimals_resp |-> decimals_resp]
            /\ ret' = r.ret
            /\ calls' = r.calls
    /\ pc' = "done"
    /\ UNCHANGED queried

Return ==
    /\ pc = "done"
    /\ pc' = "ready"
    /\ op' = "none"
    /\ arg' = <<>>
    /\ ret' = <<>>
    /\ calls' = <<>>
    /\ queried' = {}

Next ==
    \/ AsU32
    \/ TryFromExactInput
    \/ TryFromExactOutput
    \/ QuoterExecute
    \/ RouterExecute
    \/ FactoryExecute
    \/ Swap
    \/ TokenNew
    \/ TokenNewFromOnline
    \/ Return

Spec == Init /\ [][Next]_vars

(***************************************************************************)
(* The amount converter, applied to inputs drawn at the start: a human     *)
(* amount is converted to fixed point, and the fixed-point amount back.    *)
(***************************************************************************)
HumanAmounts ==
    {F64Zero,
     F64FromRatio(<<1>>, FromInt(100)),
     F64FromRatio(<<2>>, FromInt(100)),
     F64FromRatio(FromInt(11), FromInt(10)),
     F64FromNat(<<1>>),
     F64FromNat(FromInt(1000)),
     F64FromNat(FromInt(100000)),
     F64FromNat(FromInt(123456789)),
     F64FromNat(Ones(F64MantBits)),
     F64Pow2(100),
     F64Pow2(200),
     F64Pow2(250)}

InitAmount ==
    /\ pc = "ready"
    /\ op = "none"
    /\ arg \in [amount_in : HumanAmounts, decimals : 0..MaxDecimals]
    /\ ret = <<>>
    /\ calls = <<>>
    /\ queried = {}

FromReadableAmount ==
    /\ pc = "ready"
    /\ pc' = "done"
    /\ op' = "from_readable_amount"
    /\ ret' = Ok("U256", from_readable_amount(arg.amount_in, arg.decimals))
    /\ UNCHANGED <<arg, calls, queried>>

\* The fixed-point amount just produced is converted back; human keeps the
\* amount it came from.
ToReadableAmount ==
    /\ pc = "done"
    /\ op = "from_readable_amount"
    /\ op' = "to_readable_amount"
    /\ arg' = [amount_in |-> ret.val, decimals |-> arg.decimals,
               human |-> arg.amount_in]
    /\ ret' = to_readable_amount(ret.val, arg.decimals)
    /\ UNCHANGED <<pc, calls, queried>>

NextAmount ==
    \/ FromReadableAmount
    \/ ToReadableAmount

SpecAmount == InitAmount /\ [][NextAmount]_vars

(***************************************************************************)
(* The round trip alone, on whole amounts whose scaled value stays below   *)
(* 2^128, so that the cast to u128 never saturates.                        *)
(***************************************************************************)
RoundTripAmounts ==
    {F64Zero,
     F64FromNat(<<1>>),
     F64FromNat(FromInt(1000)),
     F64FromNat(FromInt(100000)),
     F64FromNat(FromInt(123456789)),
     F64FromNat(Ones(F64MantBits)),
     F64Pow2(60)}

InitRoundTrip ==
    /\ pc = "ready"
    /\ op = "none"
    /\ arg \in [amount_in : RoundTripAmounts, decimals : 0..MaxDecimals]
    /\ ret = <<>>
    /\ calls = <<>>
    /\ queried = {}

SpecRoundTrip == InitRoundTrip /\ [][NextAmount]_vars

(***************************************************************************)
(* A caller that keeps going: after a network command returned it calls    *)
(* again, and queried remembers the inputs it has already asked the        *)
(* network about.  None of the commands reads or writes anything that      *)
(* outlives the call, so queried is history only.  The inputs are a small  *)
(* part of the ones above, so that the same input comes round again.       *)
(***************************************************************************)
MaxQueried == 2

NetworkCommands == {"quoter_execute", "factory_execute", "Token_new_from_online"}

QueryKey ==
    [op |-> op,
     inputs |-> IF op = "Token_new_from_online"
                THEN [address |-> arg.address, rpc_url |-> arg.rpc_url]
                ELSE [command |-> arg.command, rpc_url |-> arg.rpc_url]]

RequeryQuoterCommands ==
    {c \in QuoterCommands :
        /\ c.params.token_in = WETH
        /\ c.params.fee = "Fee3000"
        /\ c.params.sqrt_price_limit_x96 = <<>>
        /\ (c.tag = "QuoteExactInputSingle" => c.params.amount_in # <<>>)
        /\ (c.tag = "QuoteExactOutputSingle" => c.params.amount_out # <<>>)}

RequeryFactoryCommands ==
    {c \in FactoryCommands :
        c.params.token_a = WETH /\ c.params.fee = as_u32("Fee3000")}

RequeryAddresses == {WethStr, TurboStr}

Again ==
    /\ pc = "done"
    /\ op \in NetworkCommands
    /\ Cardinality(queried \cup {QueryKey}) <= MaxQueried
    /\ queried' = queried \cup {QueryKey}
    /\ pc' = "ready"
    /\ op' = "none"
    /\ arg' = <<>>
    /\ ret' = <<>>
    /\ calls' = <<>>

RequeryQuoter == QuoterExecute /\ arg'.command \in RequeryQuoterCommands

RequeryFactory == FactoryExecute /\ arg'.command \in RequeryFactoryCommands

RequeryToken == TokenNewFromOnline /\ arg'.address \in RequeryAddresses

NextRequery ==
    \/ RequeryQuoter
    \/ RequeryFactory
    \/ RequeryToken
    \/ Again

SpecRequery == Init /\ [][NextRequery]_vars

(***************************************************************************)
(* Properties.                                                             *)
(***************************************************************************)
Returned(name) == pc = "done" /\ op = name

\* floor(a * 10^d) for a finite f64 a, computed exactly.
ExactScaled(a, d) ==
    LET p == BigMul(a.m, Pow10(d))
    IN  IF a.e >= 0 THEN Shl(p, a.e) ELSE Shr(p, -a.e)

Pow5(d) == Shr(Pow10(d), d)

IsU256(v) ==
    /\ BitLen(v) <= U256Bits
    /\ \A i \in 1..Len(v) : v[i] \in 0..(LimbBase - 1)
    /\ (v # <<>> => v[Len(v)] # 0)

\* C1: swap called for any version/direction other than V3 with ExactInput
\* (V2 with either direction, V3 with ExactOutput) returns the error
\* NotSupported, never Ok.
C1_UnimplementedIsNotSupported ==
    (Returned("swap")
        /\ ~(arg.uniswap_version = "V3" /\ arg.direction = "ExactInput"))
    => ret = Err("NotSupported")

\* C2: with the provider constructed, a quoter command whose contract call
\* fails returns the error WrongPoolFee; it never panics, and an Ok result has
\* the variant of the command and exactly the amount the provider returned.
C2_QuoterCallFailureIsWrongPoolFee ==
    (Returned("quoter_execute") /\ Provider_try_from(arg.rpc_url))
    => /\ ret.kind # "Panic"
       /\ (~arg.resp.ok => ret = Err("WrongPoolFee"))
       /\ (ret.kind = "Ok" =>
             /\ arg.resp.ok
             /\ ret.tag = arg.command.tag
             /\ ret.val = arg.resp.val)

C2_Witness ==
    /\ Returned("quoter_execute")
    /\ Provider_try_from(arg.rpc_url)
    /\ arg.command.tag = "QuoteExactInputSingle"
    /\ arg.command.params.fee = "Fee100"
    /\ arg.resp = [ok |-> FALSE, why |-> "revert"]
    /\ ret = Err("WrongPoolFee")
    /\ Len(calls) = 1

\* C3: converting ExactInputSingleParams / ExactOutputSingleParams fails with
\* WrongPoolFee or ValueOutOfRange whenever the fee needs more than 24 bits or
\* sqrt_price_limit_x96 more than 160 bits; no such value comes out as Ok.
C3_NarrowingIsChecked ==
    ((Returned("try_from_ExactInputSingleParams")
         \/ Returned("try_from_ExactOutputSingleParams"))
        /\ (as_u32(arg.value.fee) >= 2^Uint24Bits
            \/ BitLen(arg.value.sqrt_price_limit_x96) > Uint160Bits))
    => (ret.kind = "Err" /\ ret.err \in {"WrongPoolFee", "ValueOutOfRange"})

\* C4: from_readable_amount fails with OverflowError whenever
\* amount * 10^decimals does not fit the 256-bit fixed-point integer; it
\* returns no wrapped or clamped integer for such an input.
C4_OverflowIsError ==
    (Returned("from_readable_amount")
        /\ BitLen(ExactScaled(arg.amount_in, arg.decimals)) > U256Bits)
    => ret = Err("OverflowError")

\* C5: as_u32 maps every fee tier, without failing, to its own value among
\* 10000, 3000, 500 and 100, and no other tier maps to that value.
C5_FeeMappingTotalInjective ==
    Returned("as_u32")
    => /\ ret.kind = "Ok"
       /\ ret.val \in {10000, 3000, 500, 100}
       /\ (arg.fee = "Fee10000" => ret.val = 10000)
       /\ (arg.fee = "Fee3000" => ret.val = 3000)
       /\ (arg.fee = "Fee500" => ret.val = 500)
       /\ (arg.fee = "Fee100" => ret.val = 100)
       /\ \A other \in UniswapPoolFee \ {arg.fee} : as_u32(other) # ret.val

C5_Witness ==
    Returned("as_u32") /\ arg.fee = "Fee500" /\ ret.val = 500

\* C6: for a non-negative whole-number amount a and decimals d in [0,18] whose
\* scaled value fits the fixed-point integer, from_readable_amount(a, d) is
\* exactly a * 10^d.
C6_WholeAmountScalesExactly ==
    (Returned("from_readable_amount")
        /\ F64IsWhole(arg.amount_in)
        /\ BitLen(ExactScaled(arg.amount_in, arg.decimals)) <= U256Bits)
    => (ret.kind = "Ok" /\ ret.val = ExactScaled(arg.amount_in, arg.decimals))

\* C7: for non-negative amounts a <= b and decimals d in [0,18],
\* from_readable_amount(a, d) is a non-negative 256-bit integer and is at most
\* from_readable_amount(b, d).
C7_NonNegativeMonotonic ==
    Returned("from_readable_amount")
    => /\ ret.kind = "Ok"
       /\ IsU256(ret.val)
       /\ \A b \in HumanAmounts :
            LET fb == from_readable_amount(b, arg.decimals)
            IN  /\ F64Cmp(arg.amount_in, b) <= 0 => BigLe(ret.val, fb)
                /\ F64Cmp(b, arg.amount_in) <= 0 => BigLe(fb, ret.val)

C7_Witness ==
    /\ Returned("from_readable_amount")
    /\ arg.amount_in = F64FromRatio(<<1>>, FromInt(100))
    /\ arg.decimals = 18
    /\ ret.val = Pow10(16)
    /\ BigLt(ret.val, from_readable_amount(F64FromRatio(<<2>>, FromInt(100)), 18))

\* C8 as stated: for every whole-number amount a and decimals d,
\* to_readable_amount(from_readable_amount(a, d), d) is a again.
C8_RoundTripReproduces ==
    (Returned("to_readable_amount") /\ F64IsWhole(arg.human))
    => (ret.kind = "Ok" /\ ret.val = arg.human)

\* C8 amended: for a whole-number amount a and decimals d in [0,18] with
\* a * 5^d < 2^53 (so that a * 10^d is exact in f64),
\* to_readable_amount(from_readable_amount(a, d), d) is a again.
C8_RoundTripExactProduct ==
    (Returned("to_readable_amount")
        /\ F64IsWhole(arg.human)
        /\ BitLen(BigMul(ExactScaled(arg.human, 0), Pow5(arg.decimals)))
             <= F64MantBits)
    => (ret.kind = "Ok" /\ ret.val = arg.human)

C8_Witness ==
    /\ Returned("to_readable_amount")
    /\ arg.human = F64FromNat(FromInt(100000))
    /\ arg.decimals = 9
    /\ arg.amount_in = Pow10(14)
    /\ ret = [kind |-> "Ok", val |-> F64FromNat(FromInt(100000))]

\* C9: Token::new and Token::new_from_online given a string that is no
\* 20-byte address return the error InvalidAddressFormat: no panic, no Token,
\* and no contract call before the failure.
C9_BadAddressIsError ==
    ((Returned("Token_new") \/ Returned("Token_new_from_online"))
        /\ ~Address_from_str(arg.address).ok)
    => (ret = Err("InvalidAddressFormat") /\ calls = <<>>)

\* C10: a successful router execute returns an unsigned transaction request
\* and has made no call of the swap against the provider.
C10_RouterReturnsUnsignedRequest ==
    (Returned("router_execute") /\ ret.kind = "Ok")
    => (ret.tag = "TransactionRequest" /\ calls = <<>>)

\* C11 (as stated): every invocation of the factory execute and of the quoter
\* execute issues exactly one contract call, whether or not the same inputs
\* were queried before and whether or not the call fails; new_from_online
\* issues at most two calls, name then decimals, and no decimals call after
\* a failed name call.
C11_ExactlyOneCallEveryInvocation ==
    /\ (Returned("quoter_execute") \/ Returned("factory_execute"))
        => Len(calls) = 1
    /\ Returned("Token_new_from_online")
        => /\ Len(calls) <= 2
           /\ \A i \in 1..Len(calls) : calls[i].fn = <<"name", "decimals">>[i]
           /\ (~arg.name_resp.ok => Len(calls) <= 1)

\* C11 (amended): an invocation of the factory execute or of the quoter
\* execute whose RPC URL parses issues exactly one contract call, whether or
\* not the same inputs were queried before, and a failed call is returned as
\* an error after that one attempt; an invocation whose RPC URL does not
\* parse issues none.  new_from_online issues at most two calls, name then
\* decimals, and no decimals call after a failed name call.
C11_OneCallPerConnectedInvocation ==
    /\ (Returned("quoter_execute") \/ Returned("factory_execute"))
        => /\ Len(calls) = (IF Provider_try_from(arg.rpc_url) THEN 1 ELSE 0)
           /\ (Provider_try_from(arg.rpc_url) /\ ~arg.resp.ok
                => ret.kind = "Err")
    /\ Returned("Token_new_from_online")
        => /\ Len(calls) <= 2
           /\ \A i \in 1..Len(calls) : calls[i].fn = <<"name", "decimals">>[i]
           /\ (~arg.name_resp.ok => Len(calls) <= 1)

\* The factory is asked again about inputs it was asked about before, the
\* call fails, and the one call was made all the same.
C11_Witness ==
    /\ Returned("factory_execute")
    /\ QueryKey \in queried
    /\ Provider_try_from(arg.rpc_url)
    /\ ~arg.resp.ok
    /\ Len(calls) = 1
    /\ ret.kind = "Err"

\* C12: for every command of the closed enumerations (both quoter variants,
\* the one factory variant) execute never returns InvalidCommand / "invalid
\* command"; the outcome is an Ok result of the command's own variant or one
\* of the provider / call errors.
C12_InvalidCommandUnreachable ==
    /\ Returned("quoter_execute")
        => /\ ret # Err("InvalidCommand")
           /\ \/ ret.kind = "Ok" /\ ret.tag = arg.command.tag
              \/ ret \in {Err("InvalidRpcUrl"), Err("InvalidAddress"),
                          Err("WrongPoolFee")}
    /\ Returned("factory_execute")
        => /\ ret # Err("invalid command")
           /\ \/ ret.kind = "Ok" /\ ret.tag = arg.command.tag
              \/ ret \in {Err("InvalidRpcUrl"), Err("ContractError")}

\* The last arm before the catch-all was taken and answered in its variant.
C12_Witness ==
    /\ Returned("quoter_execute")
    /\ arg.command.tag = "QuoteExactOutputSingle"
    /\ arg.resp.ok
    /\ ret = Ok("QuoteExactOutputSingle", arg.resp.val)
    /\ Len(calls) = 1
    /\ calls[1].fn = "quote_exact_output_single"

\* The invocations of the router command among the calls a swap issued.
RouterInvocations ==
    SelectSeq(calls, LAMBDA c : c.contract = "uniswapv3_router"
                                /\ c.fn = "execute")

====
